---- MODULE Spec2Model ----
(***************************************************************************)
(* Model of the link decorator of                                          *)
(* src/view/com/lightbox/ImageViewing/components/ImageDefaultHeader.tsx:   *)
(* the URI scanner iterateUris (one step per iteration of its while loop)  *)
(* and the ProseMirror plugin state (init / apply) that keeps a            *)
(* decoration set for the document.                                        *)
(*                                                                         *)
(* Text is a sequence of one-character strings; offsets are 0-based as in  *)
(* JavaScript, so the character at offset i of s is s[i + 1].              *)
(***************************************************************************)
EXTENDS Integers, Sequences, FiniteSets

VARIABLES
    str,          \* iterateUris: the text being scanned
    pc,           \* iterateUris: "scan" while the loop runs, "done" after it
    lastIndex,    \* iterateUris: re.lastIndex
    emitted,      \* iterateUris: the calls made to cb so far, in order
    skipped,      \* iterateUris: match.index of the matches left by `continue`
    doc,          \* plugin: the editor's current document
    decorationSet,\* plugin: the plugin state (a DecorationSet)
    lastTr,       \* plugin: docChanged of the last transaction, and whether it changed text
    lastPath      \* plugin: the branch of apply the last transaction took

vars == <<str, pc, lastIndex, emitted, skipped, doc, decorationSet, lastTr, lastPath>>
scanVars == <<str, pc, lastIndex, emitted, skipped>>
syncVars == <<doc, decorationSet, lastTr, lastPath>>

----------------------------------------------------------------------------
(* Bounds *)

MaxTokens == 4        \* a scanned text is at most this many tokens, or
MaxWords == 3         \* at most this many words separated by single spaces
MaxBlocks == 2        \* a document has at most this many blocks
MaxDocTokens == 3     \* the texts of a document's blocks hold at most this many tokens

----------------------------------------------------------------------------
(* Characters *)

WhiteSpace == {" ", "\n", "\t"}
LineTerminators == {"\n"}
LowerLetters == {"h", "t", "p", "s", "a", "b", "x", "n"}
UpperLetters == {"H", "T", "P"}
Digits == {"1"}

Lower(c) ==
    CASE c = "H" -> "h"
      [] c = "T" -> "t"
      [] c = "P" -> "p"
      [] OTHER -> c

\* [a-z] under the i flag
IsAlpha(c) == Lower(c) \in LowerLetters
\* [a-z0-9] under the i flag
IsAlnum(c) == IsAlpha(c) \/ c \in Digits
\* \s
IsSpace(c) == c \in WhiteSpace
\* \S
IsNonSpace(c) == ~IsSpace(c)

CharAt(s, i) == s[i + 1]
\* s.slice(i, j)
Slice(s, i, j) == SubSeq(s, i + 1, j)

Http == <<"h", "t", "t", "p">>
HttpsPrefix == <<"h", "t", "t", "p", "s", ":", "/", "/">>
SchemeSep == <<":", "/", "/">>

\* s.startsWith(p): case-sensitive
StartsWith(s, p) == Len(s) >= Len(p) /\ SubSeq(s, 1, Len(p)) = p

\* the least element of a non-empty set of offsets
Min(S) == CHOOSE x \in S : \A y \in S : x <= y

\* the least element of a set of offsets, or -1 when there is none
FirstOf(S) == IF S = {} THEN -1 ELSE Min(S)

\* s.indexOf(sub, start)
IndexOf(s, sub, start) ==
    FirstOf({i \in start..(Len(s) - Len(sub)) : Slice(s, i, i + Len(sub)) = sub})

\* s.includes(c)
Includes(s, c) == \E i \in 1..Len(s) : s[i] = c

----------------------------------------------------------------------------
\* The regular expression of iterateUris, flags g, i and m:
\*   group 1:  ^  or  \s  or  an opening parenthesis
\*   group 2:  either  https? : / / [\S]+
\*             or      domain [\S]*   with
\*   domain:   [a-z] [a-z0-9]* ( \. [a-z0-9]+ )+

\* end (exclusive) of the longest run of non-space characters from i: [\S]*
NonSpaceRunEnd(s, i) ==
    Min({k \in i..Len(s) : k = Len(s) \/ IsSpace(CharAt(s, k))})

\* end (exclusive) of the longest run of [a-z0-9] from i: [a-z0-9]*
AlnumRunEnd(s, i) ==
    Min({k \in i..Len(s) : k = Len(s) \/ ~IsAlnum(CharAt(s, k))})

\* :\/\/[\S]+ at k: the end of the match, or -1
SchemeBodyEnd(s, k) ==
    IF /\ k + 3 < Len(s)
       /\ Slice(s, k, k + 3) = SchemeSep
       /\ IsNonSpace(CharAt(s, k + 3))
    THEN NonSpaceRunEnd(s, k + 3)
    ELSE -1

\* the first of two attempts that succeeds
OrElse(a, b) == IF a # -1 THEN a ELSE b

\* https?:\/\/[\S]+ at j (case-insensitive): the end of the match, or -1;
\* the optional s is tried first
MatchScheme(s, j) ==
    IF /\ j + 4 <= Len(s)
       /\ \A k \in 0..3 : Lower(CharAt(s, j + k)) = Http[k + 1]
    THEN IF j + 4 < Len(s) /\ Lower(CharAt(s, j + 4)) = "s"
         THEN OrElse(SchemeBodyEnd(s, j + 5), SchemeBodyEnd(s, j + 4))
         ELSE SchemeBodyEnd(s, j + 4)
    ELSE -1

\* (\.[a-z0-9]+)+ greedily from p: the end after the last label taken
RECURSIVE LabelsEnd(_, _)
LabelsEnd(s, p) ==
    IF /\ p + 1 < Len(s)
       /\ CharAt(s, p) = "."
       /\ IsAlnum(CharAt(s, p + 1))
    THEN LabelsEnd(s, AlnumRunEnd(s, p + 1))
    ELSE p

\* at least one label must follow the first one, which ends at a
AtLeastOneLabel(a, e) == IF e > a THEN e ELSE -1

\* the labels after the first label, which ends at a
LabelsAfter(s, a) == AtLeastOneLabel(a, LabelsEnd(s, a))

\* (?<domain>[a-z][a-z0-9]*(\.[a-z0-9]+)+) at j: the end of the group, or -1
MatchDomain(s, j) ==
    IF j < Len(s) /\ IsAlpha(CharAt(s, j))
    THEN LabelsAfter(s, AlnumRunEnd(s, j + 1))
    ELSE -1

NoMatch == [found |-> FALSE]

\* the second group at j, given where its two alternatives end (-1: no
\* match): the scheme alternative first, then the bare domain and [\S]*
Group2Of(s, j, schemeEnd, domEnd) ==
    IF schemeEnd # -1
    THEN [found |-> TRUE, start |-> j, end |-> schemeEnd,
          domain |-> FALSE, domEnd |-> -1]
    ELSE IF domEnd # -1
    THEN [found |-> TRUE, start |-> j, end |-> NonSpaceRunEnd(s, domEnd),
          domain |-> TRUE, domEnd |-> domEnd]
    ELSE NoMatch

\* the second group at j
Group2At(s, j) == Group2Of(s, j, MatchScheme(s, j), MatchDomain(s, j))

\* ^ under the m flag
AtLineStart(s, i) == i = 0 \/ CharAt(s, i - 1) \in LineTerminators

\* \s or an opening parenthesis at i
AtSeparator(s, i) == i < Len(s) /\ (IsSpace(CharAt(s, i)) \/ CharAt(s, i) = "(")

\* the match object of a match at index i whose second group is g
MatchObject(i, g) ==
    [found |-> TRUE, index |-> i, start |-> g.start, end |-> g.end,
     domain |-> g.domain, domEnd |-> g.domEnd]

\* the alternatives of the first group in order: g0 is the second group
\* after an empty first group, g1 after a one-character first group
FirstAlternative(i, g0, g1) ==
    IF g0.found THEN MatchObject(i, g0)
    ELSE IF g1.found THEN MatchObject(i, g1)
    ELSE NoMatch

\* the whole pattern anchored at i
MatchAt(s, i) ==
    FirstAlternative(i,
        IF AtLineStart(s, i) THEN Group2At(s, i) ELSE NoMatch,
        IF AtSeparator(s, i) THEN Group2At(s, i + 1) ELSE NoMatch)

\* the match at the leftmost of the offsets where the pattern matches
LeftmostMatch(s, hits) == IF hits = {} THEN NoMatch ELSE MatchAt(s, Min(hits))

\* re.exec(str) with re.lastIndex = from: the leftmost match at or after from
Exec(s, from) == LeftmostMatch(s, {i \in from..Len(s) : MatchAt(s, i).found})

----------------------------------------------------------------------------
(* The body of the while loop of iterateUris *)

\* isValidDomain of lib/strings/url-helpers: the domain's last label is a
\* recognised top-level domain
ValidTlds == {<<"b">>}

LastLabel(d) ==
    SubSeq(d, 1 + Len(d) - Min({n \in 0..Len(d) : n = Len(d) \/ d[Len(d) - n] = "."}), Len(d))

isValidDomain(d) == LastLabel(d) \in ValidTlds

\* match[2]
Match2(s, m) == Slice(s, m.start, m.end)

\* match.groups?.domain; <<>> stands for undefined
DomainGroup(s, m) == IF m.domain THEN Slice(s, m.start, m.domEnd) ELSE <<>>

\* !uri.startsWith('http')
IsBare(uri) == ~StartsWith(uri, Http)

\* the `continue` of the loop
IsSkipped(s, m) ==
    /\ IsBare(Match2(s, m))
    /\ \/ DomainGroup(s, m) = <<>>
       \/ ~isValidDomain(DomainGroup(s, m))

\* uri before trimming
ResolveUri(m2) == IF IsBare(m2) THEN HttpsPrefix \o m2 ELSE m2

\* variant: str.indexOf(match[2]) without the start index
SpanFrom_NoStartIndex(s, m) == IndexOf(s, Match2(s, m), 0)

\* let from = str.indexOf(match[2], match.index)
SpanFrom(s, m) == IndexOf(s, Match2(s, m), m.index)

\* variant: to one further to the right
SpanTo_TooFar(from, m2) == from + Len(m2) + 2

\* let to = from + match[2].length + 1
SpanTo(from, m2) == from + Len(m2) + 1

Punctuation == {".", ",", ";", "!", "?"}

\* if (/[.,;!?]$/.test(uri)) { uri = uri.slice(0, -1); to-- }
StripPunctuation(r) ==
    IF Len(r.uri) > 0 /\ r.uri[Len(r.uri)] \in Punctuation
    THEN [uri |-> SubSeq(r.uri, 1, Len(r.uri) - 1), to |-> r.to - 1]
    ELSE r

\* variant: the closing parenthesis stripped whether or not one was opened
StripParen_Always(r) ==
    IF Len(r.uri) > 0 /\ r.uri[Len(r.uri)] = ")"
    THEN [uri |-> SubSeq(r.uri, 1, Len(r.uri) - 1), to |-> r.to - 1]
    ELSE r

\* if (/[)]$/.test(uri) && !uri.includes('(')) { uri = uri.slice(0, -1); to-- }
StripParen(r) ==
    IF Len(r.uri) > 0 /\ r.uri[Len(r.uri)] = ")" /\ ~Includes(r.uri, "(")
    THEN [uri |-> SubSeq(r.uri, 1, Len(r.uri) - 1), to |-> r.to - 1]
    ELSE r

\* one call of cb, for a match that is not skipped.  from and to are the
\* arguments of cb; uri, raw (match[2]), to0 (to before trimming), domain
\* (match.groups.domain) and validated (isValidDomain was called and
\* returned true) are the locals of the iteration.
Candidate(s, m) ==
    LET m2 == Match2(s, m)
        from == SpanFrom(s, m)
        to0 == SpanTo(from, m2)
        r == StripParen(StripPunctuation([uri |-> ResolveUri(m2), to |-> to0]))
    IN [from |-> from, to |-> r.to, uri |-> r.uri, raw |-> m2, to0 |-> to0,
        domain |-> DomainGroup(s, m),
        validated |-> IsBare(m2) /\ isValidDomain(DomainGroup(s, m))]

\* iterateUris(str, cb) run to completion: the sequence of calls of cb
RECURSIVE IterateFrom(_, _)

\* one iteration on the match m, and the iterations after it
Iteration(s, m) ==
    IF ~m.found THEN <<>>
    ELSE IF IsSkipped(s, m) THEN IterateFrom(s, m.end)
    ELSE <<Candidate(s, m)>> \o IterateFrom(s, m.end)

\* the loop from re.lastIndex = li on
IterateFrom(s, li) == Iteration(s, Exec(s, li))

iterateUris(s) == IterateFrom(s, 0)

----------------------------------------------------------------------------
(* Texts *)

Tokens == {
    <<"h", "t", "t", "p", "s", ":", "/", "/">>,
    <<"H", "T", "T", "P", ":", "/", "/">>,
    <<"h", "t", "t", "p">>,
    <<"a", ".", "b">>,
    <<"x", ".", "n">>,
    <<".">>, <<" ">>, <<"(">>, <<")">>, <<"1">> }

RECURSIVE TextsOf(_, _)
TextsOf(toks, n) ==
    IF n = 0 THEN {<<>>}
    ELSE LET shorter == TextsOf(toks, n - 1)
         IN shorter \cup {t \o k : t \in shorter, k \in toks}

Words == {
    <<"a", ".", "b">>,
    <<"x", ".", "n">>,
    <<"h", "t", "t", "p", "x", ".", "n">>,
    <<"h", "t", "t", "p", "s", ":", "/", "/", "a", ".", "b">>,
    <<"H", "T", "T", "P", ":", "/", "/", "a", ".", "b">>,
    <<"a", ".", "b", ")", ".">> }

RECURSIVE SentencesOf(_, _)
SentencesOf(ws, n) ==
    IF n = 0 THEN {<<>>}
    ELSE IF n = 1 THEN {<<>>} \cup ws
    ELSE LET shorter == SentencesOf(ws, n - 1)
         IN shorter \cup {t \o <<" ">> \o w : t \in shorter \ {<<>>}, w \in ws}

Texts == TextsOf(Tokens, MaxTokens) \cup SentencesOf(Words, MaxWords)

----------------------------------------------------------------------------
(* The scanner, one step per iteration of `while ((match = re.exec(str)))` *)

NoTr == [docChanged |-> FALSE, textChanged |-> FALSE]

ScanInit ==
    /\ str \in Texts
    /\ pc = "scan"
    /\ lastIndex = 0
    /\ emitted = <<>>
    /\ skipped = <<>>
    /\ doc = <<>>
    /\ decorationSet = {}
    /\ lastTr = NoTr
    /\ lastPath = "init"

\* the match of this iteration: re.exec(str)
ThisMatch == Exec(str, lastIndex)

\* an iteration that reaches cb(from, to)
EmitOn(m) ==
    /\ m.found
    /\ ~IsSkipped(str, m)
    /\ emitted' = Append(emitted, Candidate(str, m))
    /\ lastIndex' = m.end
    /\ UNCHANGED <<str, pc, skipped>>
    /\ UNCHANGED syncVars

Emit == pc = "scan" /\ EmitOn(ThisMatch)

\* an iteration that ends in `continue`
SkipOn(m) ==
    /\ m.found
    /\ IsSkipped(str, m)
    /\ lastIndex' = m.end
    /\ skipped' = Append(skipped, m.index)
    /\ UNCHANGED <<str, pc, emitted>>
    /\ UNCHANGED syncVars

Skip == pc = "scan" /\ SkipOn(ThisMatch)

\* re.exec returns null: the loop ends and lastIndex is reset
Finish ==
    /\ pc = "scan"
    /\ ~ThisMatch.found
    /\ pc' = "done"
    /\ lastIndex' = 0
    /\ UNCHANGED <<str, emitted, skipped>>
    /\ UNCHANGED syncVars

ScanNext == Emit \/ Skip \/ Finish

ScanSpec == ScanInit /\ [][ScanNext]_vars

----------------------------------------------------------------------------
(* Documents: a sequence of text blocks, each a paragraph or a heading.    *)
(* Marks (bold, italics) are left out of a block: neither textContent nor  *)
(* any position depends on them.                                           *)

DocTokens == { <<"a", ".", "b">>, <<" ">> }

\* the texts of k blocks after at most n tokens were typed into them
RECURSIVE TypedTexts(_, _)
TypedTexts(k, n) ==
    IF n = 0 THEN {[i \in 1..k |-> <<>>]}
    ELSE LET shorter == TypedTexts(k, n - 1)
         IN shorter \cup {[t EXCEPT ![i] = @ \o tok] :
                             t \in shorter, i \in 1..k, tok \in DocTokens}

EmptyParagraph == [type |-> "paragraph", text |-> <<>>]

\* node.nodeSize of a text block: its text and its two boundary tokens
NodeSize(b) == Len(b.text) + 2

\* the position findChildren reports for the i-th block of the document
RECURSIVE NodePos(_, _)
NodePos(d, i) == IF i = 1 THEN 0 ELSE NodePos(d, i - 1) + NodeSize(d[i - 1])

\* findChildren(doc, node => node.type.name === 'paragraph')
Paragraphs(d) == {i \in 1..Len(d) : d[i].type = "paragraph"}

\* Decoration.inline(paragraphNode.pos + from, paragraphNode.pos + to,
\*                   {class: 'autolink'})
InlineDecoration(pos, c) ==
    [from |-> pos + c.from, to |-> pos + c.to, class |-> "autolink"]

\* the decorations pushed for the paragraph at pos, found being the calls
\* of the callback on its text
DecorationsAt(pos, found) == { InlineDecoration(pos, found[k]) : k \in 1..Len(found) }

\* getDecorations(doc)
getDecorations(d) ==
    UNION { DecorationsAt(NodePos(d, i), iterateUris(d[i].text)) : i \in Paragraphs(d) }

\* StepMap.map(pos, assoc) over the ranges [start, oldSize, newSize] of one
\* step, from the k-th range on, diff being the shift accumulated so far
RECURSIVE StepMapFrom(_, _, _, _, _)
StepMapFrom(ranges, k, diff, pos, assoc) ==
    IF k > Len(ranges) \/ ranges[k].start > pos THEN pos + diff
    ELSE LET r == ranges[k]
             end == r.start + r.oldSize
         IN IF pos <= end
            THEN LET side == IF r.oldSize = 0 THEN assoc
                             ELSE IF pos = r.start THEN -1
                             ELSE IF pos = end THEN 1
                             ELSE assoc
                 IN r.start + diff + (IF side < 0 THEN 0 ELSE r.newSize)
            ELSE StepMapFrom(ranges, k + 1, diff + r.newSize - r.oldSize, pos, assoc)

\* Mapping.map(pos, assoc): through the step maps in order
RECURSIVE MapPos(_, _, _)
MapPos(mapping, pos, assoc) ==
    IF mapping = <<>> THEN pos
    ELSE MapPos(Tail(mapping), StepMapFrom(Head(mapping), 1, 0, pos, assoc), assoc)

\* DecorationSet.map(mapping, doc): the set itself when the mapping has no
\* step maps; otherwise each inline decoration with its ends mapped and its
\* attributes kept, those that become empty dropped
MapSet(set, mapping) ==
    IF mapping = <<>> THEN set
    ELSE { [from |-> MapPos(mapping, x.from, 1), to |-> MapPos(mapping, x.to, -1),
            class |-> x.class]
           : x \in {y \in set : MapPos(mapping, y.from, 1) < MapPos(mapping, y.to, -1)} }

\* state.init
init(d) == getDecorations(d)

\* variant: the branch chosen by whether the text changed
apply_ByTextChange(tr, set) ==
    IF tr.textChanged
    THEN [set |-> getDecorations(tr.doc), path |-> "recompute"]
    ELSE [set |-> MapSet(set, tr.mapping), path |-> "remap"]

\* variant: always the full recomputation
apply_AlwaysRecompute(tr, set) ==
    [set |-> getDecorations(tr.doc), path |-> "recompute"]

\* state.apply(transaction, decorationSet), with the branch taken
apply(tr, set) ==
    IF tr.docChanged
    THEN [set |-> getDecorations(tr.doc), path |-> "recompute"]
    ELSE [set |-> MapSet(set, tr.mapping), path |-> "remap"]

----------------------------------------------------------------------------
(* Transactions of the editor.  docChanged is true exactly when the        *)
(* transaction has steps, and each step adds one step map to the mapping.  *)

Range(start, oldSize, newSize) == [start |-> start, oldSize |-> oldSize, newSize |-> newSize]

Transaction(kind, d, stepMaps, textChanged) ==
    [doc |-> d, docChanged |-> stepMaps # <<>>,
     mapping |-> stepMaps, textChanged |-> textChanged]

\* a selection change: no step
SelectionTr(d) == Transaction("selection", d, <<>>, FALSE)

\* typing tok at the end of block i
InsertTextTr(d, i, tok) ==
    Transaction("insertText",
                [d EXCEPT ![i].text = @ \o tok],
                << <<Range(NodePos(d, i) + 1 + Len(d[i].text), 0, Len(tok))>> >>,
                TRUE)

\* deleting the whole text of block i
DeleteTextTr(d, i) ==
    Transaction("deleteText",
                [d EXCEPT ![i].text = <<>>],
                << <<Range(NodePos(d, i) + 1, Len(d[i].text), 0)>> >>,
                TRUE)

\* toggling bold on the selection: a mark step, whose step map is empty; the
\* blocks' types and texts stay as they are
ToggleBoldTr(d) == Transaction("toggleBold", d, << <<>> >>, FALSE)

\* turning block i into a heading or back: the two boundary tokens replaced
SetBlockTypeTr(d, i) ==
    Transaction("setBlockType",
                [d EXCEPT ![i].type = IF @ = "paragraph" THEN "heading" ELSE "paragraph"],
                << <<Range(NodePos(d, i), 1, 1),
                     Range(NodePos(d, i) + NodeSize(d[i]) - 1, 1, 1)>> >>,
                FALSE)

\* a new empty paragraph before the first block
PrependBlockTr(d) ==
    Transaction("prependBlock", <<EmptyParagraph>> \o d, << <<Range(0, 0, 2)>> >>, FALSE)

\* the transaction as the model remembers it
Summary(tr) == [docChanged |-> tr.docChanged, textChanged |-> tr.textChanged]

----------------------------------------------------------------------------
(* The plugin *)

BlockTypes == {"paragraph", "heading"}

\* the documents of k blocks
DocsOf(k) ==
    { [i \in 1..k |-> [type |-> ty[i], text |-> t[i]]] :
        ty \in [1..k -> BlockTypes], t \in TypedTexts(k, MaxDocTokens) }

Docs == UNION { DocsOf(k) : k \in 1..MaxBlocks }

\* the plugin is created on the editor's first document
SyncInit ==
    /\ doc \in Docs
    /\ decorationSet = init(doc)
    /\ lastTr = NoTr
    /\ lastPath = "init"
    /\ str = <<>>
    /\ pc = "done"
    /\ lastIndex = 0
    /\ emitted = <<>>
    /\ skipped = <<>>

\* the editor dispatches tr: the document becomes tr.doc and the plugin
\* state becomes apply(tr, decorationSet)
Install(tr, r) ==
    /\ doc' = tr.doc
    /\ decorationSet' = r.set
    /\ lastPath' = r.path
    /\ lastTr' = Summary(tr)
    /\ UNCHANGED scanVars

Dispatch(tr) == Install(tr, apply(tr, decorationSet))

SetSelection == Dispatch(SelectionTr(doc))

InsertText ==
    \E i \in 1..Len(doc), tok \in DocTokens :
        /\ InsertTextTr(doc, i, tok).doc \in Docs
        /\ Dispatch(InsertTextTr(doc, i, tok))

DeleteText ==
    \E i \in 1..Len(doc) :
        /\ doc[i].text # <<>>
        /\ Dispatch(DeleteTextTr(doc, i))

ToggleBold == Dispatch(ToggleBoldTr(doc))

SetBlockType == \E i \in 1..Len(doc) : Dispatch(SetBlockTypeTr(doc, i))

PrependBlock ==
    /\ Len(doc) < MaxBlocks
    /\ Dispatch(PrependBlockTr(doc))

Next ==
    \/ SetSelection
    \/ InsertText
    \/ DeleteText
    \/ ToggleBold
    \/ SetBlockType
    \/ PrependBlock

Spec == SyncInit /\ [][Next]_vars

----------------------------------------------------------------------------
(* Properties of the scanner, checked under ScanSpec *)

Emitted == {emitted[k] : k \in 1..Len(emitted)}

Boundary == WhiteSpace \cup {"("}

\* the text begins with http:// or https://
SchemePrefixed(t) ==
    \/ StartsWith(t, <<"h", "t", "t", "p", ":", "/", "/">>)
    \/ StartsWith(t, HttpsPrefix)

\* boundary trimming as the specification words it: one trailing character
\* of . , ; ! ? removed, then one trailing closing parenthesis removed when
\* the match has no opening parenthesis
TrimmedPunct(t) ==
    IF t # <<>> /\ t[Len(t)] \in {".", ",", ";", "!", "?"}
    THEN SubSeq(t, 1, Len(t) - 1) ELSE t

Trimmed(t) ==
    LET u == TrimmedPunct(t)
    IN IF u # <<>> /\ u[Len(u)] = ")" /\ \A i \in 1..Len(t) : t[i] # "("
       THEN SubSeq(u, 1, Len(u) - 1) ELSE u

\* the text with every letter in lower case
LowerText(t) == [i \in 1..Len(t) |-> Lower(t[i])]

\* the (from, to) pairs of a sequence of candidates
Ranges(cs) == [k \in 1..Len(cs) |-> <<cs[k].from, cs[k].to>>]

\* C3: every span passed to the callback satisfies
\* 0 <= from < to <= length(text)
C3_SpanWithinText ==
    \A e \in Emitted : 0 <= e.from /\ e.from < e.to /\ e.to <= Len(str)

\* C4: the spans of one run are in strictly increasing order of from and
\* their [from, to) ranges do not overlap, also across skipped matches
C4_OrderedDisjoint ==
    \A j, k \in 1..Len(emitted) :
        j < k => /\ emitted[j].from < emitted[k].from
                 /\ emitted[j].to <= emitted[k].from

\* two spans were emitted with a skipped match between them
C4_Witness ==
    /\ pc = "done"
    /\ \E j \in 1..Len(emitted), k \in 1..Len(skipped) :
        /\ j < Len(emitted)
        /\ emitted[j].from < skipped[k]
        /\ skipped[k] < emitted[j + 1].from

\* C5: a text whose schemes are written in upper or mixed case yields the
\* same spans as the text in lower case
C5_SchemeCaseInsensitive ==
    pc = "done" => Ranges(emitted) = Ranges(iterateUris(LowerText(str)))

\* C6: every emitted span of the bare-domain form (not beginning with
\* http:// or https://) has a domain that isValidDomain accepts
C6_BareDomainValidated ==
    \A e \in Emitted :
        ~SchemePrefixed(e.raw) => e.validated /\ isValidDomain(e.domain)

\* C7: the url is "https://" followed by the trimmed match for a bare
\* domain and the trimmed match itself for a scheme-prefixed match, so it
\* always begins with http:// or https://
C7_UrlByForm ==
    \A e \in Emitted :
        /\ e.uri = IF SchemePrefixed(e.raw) THEN Trimmed(e.raw)
                   ELSE HttpsPrefix \o Trimmed(e.raw)
        /\ SchemePrefixed(e.uri)

\* C8: trimming removes exactly one trailing . , ; ! ? if present and then
\* one trailing closing parenthesis if the match has no opening one; to
\* shrinks by the number of characters removed and the url ends with
\* exactly the trimmed match
C8_TrimExact ==
    \A e \in Emitted :
        /\ e.to0 - e.to = Len(e.raw) - Len(Trimmed(e.raw))
        /\ e.uri \in {Trimmed(e.raw), HttpsPrefix \o Trimmed(e.raw)}
        /\ Includes(e.raw, "(") /\ e.raw[Len(e.raw)] = ")"
             => e.uri[Len(e.uri)] = ")"

\* a match with an opening parenthesis that ended in a closing parenthesis
\* and a full stop lost the full stop and kept the parenthesis
C8_Witness ==
    \E e \in Emitted :
        /\ Includes(e.raw, "(")
        /\ e.raw[Len(e.raw)] = "."
        /\ e.raw[Len(e.raw) - 1] = ")"
        /\ e.to0 - e.to = 1
        /\ e.uri[Len(e.uri)] = ")"

\* C10: every emitted span starts at offset 0 or right after whitespace or
\* an opening parenthesis
C10_StartsAtBoundary ==
    \A e \in Emitted : e.from = 0 \/ CharAt(str, e.from - 1) \in Boundary

\* a span was emitted after an earlier match was skipped, in a text where
\* the same link text also occurs as the tail of a longer token
C10_Witness ==
    /\ pc = "done"
    /\ \E e \in Emitted :
        /\ e.from > 0
        /\ \E k \in 1..Len(skipped) : skipped[k] < e.from
        /\ \E i \in 1..(e.from - 1) :
              /\ Slice(str, i, i + Len(e.raw)) = e.raw
              /\ CharAt(str, i - 1) \notin Boundary

----------------------------------------------------------------------------
(* Properties of the plugin, checked under Spec *)

\* the blocks of the document whose text holds a link
LinkBlocks(d) == {i \in 1..Len(d) : iterateUris(d[i].text) # <<>>}

\* C1: the held decoration set is what getDecorations yields on the
\* current document
C1_SetMatchesDocument == decorationSet = getDecorations(doc)

\* a change that kept every character was applied to a document that has a
\* link in a paragraph and a link in a heading
C1_Witness ==
    /\ lastTr.docChanged
    /\ ~lastTr.textChanged
    /\ decorationSet # {}
    /\ \E i \in LinkBlocks(doc) : doc[i].type = "heading"

\* C2 as stated: the remap path is taken exactly on the changes that leave
\* the text content as it was
C2_RemapWhenTextKept ==
    lastPath # "init" => (lastPath = "remap" <=> ~lastTr.textChanged)

\* C2 amended: the remap path is taken exactly on the transactions without
\* steps (docChanged false); it translates the previous set through the
\* transaction's mapping and keeps each class; every transaction with steps
\* takes the full recomputation
C2_RemapIffDocUnchanged ==
    [][ /\ lastPath' = "remap" <=> ~lastTr'.docChanged
        /\ lastPath' = "remap" =>
              /\ decorationSet' = MapSet(decorationSet, SelectionTr(doc).mapping)
              /\ \A x \in decorationSet' : x.class = "autolink" ]_vars

\* a transaction without steps was applied to a non-empty decoration set
C2_Witness ==
    /\ lastPath = "remap"
    /\ ~lastTr.docChanged
    /\ decorationSet # {}

\* the decorations the links of the document call for: for a paragraph at
\* pos, the k-th character of its text lies between pos + 1 + k and
\* pos + 2 + k
LinkRangesAt(pos, found) ==
    { [from |-> pos + 1 + found[k].from,
       to |-> pos + 1 + found[k].from + Len(Trimmed(found[k].raw)),
       class |-> "autolink"] : k \in 1..Len(found) }

LinkRanges(d) ==
    UNION { LinkRangesAt(NodePos(d, i), iterateUris(d[i].text)) : i \in Paragraphs(d) }

\* C9: there is exactly one decoration per candidate of each paragraph, and
\* it covers exactly the positions of the characters of the trimmed link
C9_DecorationCoversLink ==
    /\ decorationSet = LinkRanges(doc)
    /\ \A x \in decorationSet :
          \E i \in Paragraphs(doc) :
              /\ NodePos(doc, i) < x.from
              /\ x.to < NodePos(doc, i) + NodeSize(doc[i])

====
